---- MODULE Spec2Model ----
(***************************************************************************)
(* Model of the voyage-log pipeline of the PDF-to-Excel application:       *)
(* page/row chunking, chunked extraction, chunked standardization, voyage  *)
(* aggregation and the progress counters (src/unnamed/part_000), the       *)
(* sequential summary variant (src/index.tsx) and the file list of the     *)
(* drag-and-drop variant (src/unnamed/part_002).                           *)
(*                                                                         *)
(* JavaScript values are encoded as strings: Null and Undefined are two    *)
(* reserved strings that no field value of the model uses otherwise.       *)
(* An input row's JUMLAH_PENUMPANG is a number, 0 standing for "no count"  *)
(* (absent, null or 0, all falsy in JavaScript).                           *)
(***************************************************************************)
EXTENDS Integers, Sequences, FiniteSets, TLC

VARIABLES
    files,                \* useState files: one page count per selected PDF
    apiKey,               \* useState apiKey
    status,               \* useState status: idle, processing, success, error
    progressMessage,      \* useState progressMessage
    errorMessage,         \* useState errorMessage
    downloadLink,         \* useState downloadLink: Null or the blob url
    etr,                  \* useState etr: "" or the remaining chunks shown
    totalChunksRef,       \* useRef totalChunksRef.current
    completedChunksRef,   \* useRef completedChunksRef.current
    startTimeRef,         \* useRef startTimeRef.current: 0 or the start stamp
    pc,                   \* position of the running processFiles / harness
    extraction,           \* per file: its extractTablesFromPdf promise
    chunks,               \* per file: its page chunks and their results
    allExtractedRows,     \* processFiles local: the flattened raw rows
    stdChunks,            \* standardizeAllRows: the row chunks and responses
    standardizedData,     \* processFiles local: standardized rows
    finalData,            \* processFiles local: the voyage records
    sheet,                \* rows handed to XLSX.utils.json_to_sheet
    nItems,               \* chunking harness: number of items N
    chunkSize,            \* chunking harness: chunk size K
    pageChunksOut,        \* chunking harness: page chunks produced
    rowChunksOut,         \* chunking harness: row chunks produced
    isConfigured,         \* sequential variant: useState isConfigured
    progress,             \* sequential variant: useState progress (percent)
    failedFiles,          \* sequential variant: useState failedFiles
    allSummaries,         \* sequential variant: processFiles local allSummaries
    localFailedFiles,     \* sequential variant: processFiles local localFailedFiles
    fileIdx,              \* sequential variant: the loop index i of processFiles
    pageIdx,              \* sequential variant: pages done by the loop of
                          \* extractSummaryFromPdf
    totalPassengers,      \* sequential variant: extractSummaryFromPdf local
    voyageInfo,           \* sequential variant: extractSummaryFromPdf local
    pending,              \* sequential variant: the operations awaited
    staleChunks,          \* chunks of ended runs whose finally has not run yet
    outOfOrder            \* history: the stages of the run in which a chunk
                          \* settled before a chunk of lower index

appVars == <<files, apiKey, status, progressMessage, errorMessage, downloadLink,
             etr, totalChunksRef, completedChunksRef, startTimeRef>>
runVars == <<pc, extraction, chunks, allExtractedRows, stdChunks,
             standardizedData, finalData, sheet>>
chunkVars == <<nItems, chunkSize, pageChunksOut, rowChunksOut>>
fileVars == <<pageIdx, totalPassengers, voyageInfo, pending>>
summaryVars == <<isConfigured, progress, failedFiles, allSummaries, localFailedFiles, fileIdx,
                 fileVars>>
lateVars == <<staleChunks, outOfOrder>>
vars == <<appVars, runVars, chunkVars, summaryVars, lateVars>>

----------------------------------------------------------------------------
(* Program constants *)

PDF_PAGE_CHUNK_SIZE == 5
DATA_CHUNK_SIZE == 100
MIN_FILES == 10

(* Bounds of the model *)

MaxN == 12
MaxK == 4
MaxRows == 3
MaxPages == 11
MaxLiveDocs == 2
MaxStale == 1

Null == "<null>"
Undefined == "<undefined>"
NA == "N/A"

----------------------------------------------------------------------------
(* Generic helpers *)

RECURSIVE Flat(_)
Flat(ss) == IF ss = <<>> THEN <<>> ELSE Head(ss) \o Flat(Tail(ss))

Min(a, b) == IF a < b THEN a ELSE b

CeilDiv(n, k) == (n + k - 1) \div k

RECURSIVE SumSeq(_)
SumSeq(s) == IF s = <<>> THEN 0 ELSE Head(s) + SumSeq(Tail(s))

Truthy(v) == v \notin {Null, Undefined, ""}

OrNA(v) == IF Truthy(v) THEN v ELSE NA

----------------------------------------------------------------------------
(* Chunking: the two partition loops *)

PageChunkDropsLast(p, totalPages, K) == [i \in 1..Min(K, totalPages - p - 1) |-> p + i]

PageChunkAt(p, totalPages, K) == [i \in 1..Min(K, totalPages - p) |-> p + i]

RECURSIVE PageChunkLoop(_, _, _, _)
PageChunkLoop(p, totalPages, K, acc) ==
    IF p < totalPages
    THEN PageChunkLoop(p + K, totalPages, K, Append(acc, PageChunkAt(p, totalPages, K)))
    ELSE acc

PageChunksOf(totalPages, K) == PageChunkLoop(0, totalPages, K, <<>>)

Slice(s, from, to) == [j \in 1..(Min(to, Len(s)) - from) |-> s[from + j]]

RECURSIVE RowChunkLoop(_, _, _, _)
RowChunkLoop(i, allRows, K, acc) ==
    IF i < Len(allRows)
    THEN RowChunkLoop(i + K, allRows, K, Append(acc, Slice(allRows, i, i + K)))
    ELSE acc

RowChunksOf(allRows, K) == RowChunkLoop(0, allRows, K, <<>>)

----------------------------------------------------------------------------
(* Voyage aggregation *)

SkipVoyageIgnoresNA(voyageId) == ~Truthy(voyageId)

SkipVoyage(voyageId) == ~Truthy(voyageId) \/ voyageId = NA \/ voyageId = Null

CompositeKey(row) ==
    row.NOMOR_VOYAGE \o "|" \o OrNA(row.TANGGAL) \o "|" \o OrNA(row.PELABUHAN_MUAT)
        \o "|" \o OrNA(row.PELABUHAN_BONGKAR)

MapKey(row) == row.NOMOR_VOYAGE

NewVoyage(row) ==
    [TANGGAL |-> OrNA(row.TANGGAL),
     NOMOR_VOYAGE |-> row.NOMOR_VOYAGE,
     PELABUHAN_MUAT |-> OrNA(row.PELABUHAN_MUAT),
     PELABUHAN_BONGKAR |-> OrNA(row.PELABUHAN_BONGKAR),
     LAMA_PELAYARAN |-> OrNA(row.LAMA_PELAYARAN),
     JUMLAH_PENUMPANG |-> 0]

FillNever(cur, val) == cur

FillLast(cur, val) == IF Truthy(val) THEN val ELSE cur

FillIn(cur, val) == IF (cur = NA \/ cur = Null) /\ Truthy(val) THEN val ELSE cur

CountUpTwice(n) == n + 2

CountUp(n) == n + 1

\* voyageMap.set of a new key: a Map keeps its keys in insertion order
MapSetFront(voyageMap, key, value) == <<[key |-> key, value |-> value]>> \o voyageMap

MapSet(voyageMap, key, value) == Append(voyageMap, [key |-> key, value |-> value])

MapHas(voyageMap, key) == \E k \in 1..Len(voyageMap) : voyageMap[k].key = key

MapIndex(voyageMap, key) == CHOOSE k \in 1..Len(voyageMap) : voyageMap[k].key = key

VisitRow(voyageMap, row) ==
    LET key == MapKey(row)
        m1 == IF MapHas(voyageMap, key) THEN voyageMap
              ELSE MapSet(voyageMap, key, NewVoyage(row))
        k == MapIndex(m1, key)
        d == m1[k].value
        d2 == [d EXCEPT !.JUMLAH_PENUMPANG = CountUp(@),
                        !.TANGGAL = FillIn(@, row.TANGGAL),
                        !.PELABUHAN_MUAT = FillIn(@, row.PELABUHAN_MUAT),
                        !.PELABUHAN_BONGKAR = FillIn(@, row.PELABUHAN_BONGKAR),
                        !.LAMA_PELAYARAN = FillIn(@, row.LAMA_PELAYARAN)]
    IN  [m1 EXCEPT ![k].value = d2]

VisitOrSkip(voyageMap, row) ==
    IF SkipVoyage(row.NOMOR_VOYAGE) THEN voyageMap ELSE VisitRow(voyageMap, row)

\* for (const row of standardizedRows): rows lo..hi visited in order, the
\* range halved, and the first half evaluated before the second is entered, so
\* that the evaluation stays shallow.
RECURSIVE AggregateLoop(_, _, _, _)
AggregateLoop(rows, lo, hi, voyageMap) ==
    IF lo > hi THEN voyageMap
    ELSE IF lo = hi THEN VisitOrSkip(voyageMap, rows[lo])
    ELSE LET mid == (lo + hi) \div 2
             left == AggregateLoop(rows, lo, mid, voyageMap)
         IN  IF Len(left) >= 0 THEN AggregateLoop(rows, mid + 1, hi, left) ELSE left

aggregateVoyages(standardizedRows) ==
    IF Len(standardizedRows) = 0 THEN <<>>
    ELSE LET voyageMap == AggregateLoop(standardizedRows, 1, Len(standardizedRows), <<>>)
         IN  [k \in 1..Len(voyageMap) |-> voyageMap[k].value]

----------------------------------------------------------------------------
(* Rows and extractor responses *)

RawRow(voyage, tanggal, nama) ==
    [NoPelayaran |-> voyage, Tanggal |-> tanggal, Nama |-> nama]

TwoRows ==
    <<RawRow("V100", "2024-05-01", "Budi"), RawRow("V100", "2024-05-01", "Siti")>>

HundredRows ==
    [i \in 1..DATA_CHUNK_SIZE |-> RawRow("V200", "2024-06-01", "P" \o ToString(i))]

Response(kind, rows) == [kind |-> kind, rows |-> rows]

NoResponse == Response("none", <<>>)

\* How a generateContent call can fail: it rejects (transport), it rejects
\* because the key is refused, its text is no JSON, its JSON is no array.
CallFailureKinds == {"throws", "unauthorized", "unparseable", "notarray"}

\* A page of the chunk could not be rendered: no call is made.
RenderFailure == Response("norender", <<>>)

FailureKinds == CallFailureKinds \cup {"norender"}

\* What the call of one page chunk can end with: one of the failures, or a
\* JSON array.
ExtractResponses ==
    {Response(k, <<>>) : k \in CallFailureKinds}
        \cup {Response("array", r) : r \in {<<>>, TwoRows, HundredRows}}

\* The one-to-one mapping the standardization prompt asks the extractor for.
StandardizeRow(raw) ==
    [TANGGAL |-> raw.Tanggal,
     NOMOR_VOYAGE |-> raw.NoPelayaran,
     PELABUHAN_MUAT |-> Null,
     PELABUHAN_BONGKAR |-> Null,
     LAMA_PELAYARAN |-> Null,
     JUMLAH_PENUMPANG |-> 0]

Faithful(chunk) == [j \in 1..Len(chunk) |-> StandardizeRow(chunk[j])]

\* An answer in which no row has a voyage number.
Unlabelled(chunk) == [j \in 1..Len(chunk) |-> [StandardizeRow(chunk[j]) EXCEPT !.NOMOR_VOYAGE = NA]]

\* An answer with one object more than the chunk has rows.
Padded(chunk) == Faithful(chunk) \o <<StandardizeRow(chunk[1])>>

StdResponses(chunk) ==
    {Response(k, <<>>) : k \in CallFailureKinds}
        \cup {Response("array", r) :
                  r \in {<<>>, Faithful(chunk), Unlabelled(chunk), Padded(chunk)}}

\* try { ... JSON.parse; Array.isArray ? tables : [] } catch { return [] }
ParsedRowsKeepsFailed(resp) == resp.rows \o (IF resp.kind = "array" THEN <<>> ELSE TwoRows)

ParsedRows(resp) == IF resp.kind = "array" THEN resp.rows ELSE <<>>

\* settledResults.forEach: fulfilled, parseable and an array, or nothing
ParsedStdKeepsFailed(resp) ==
    IF resp.kind = "array" THEN resp.rows ELSE <<StandardizeRow(TwoRows[1])>>

ParsedStd(resp) == IF resp.kind = "array" THEN resp.rows ELSE <<>>

\* finally { onChunkComplete() } and promise.finally(() => onChunkComplete())
CompleteCallsOnSuccessOnly(resp) == IF resp.kind = "array" THEN 1 ELSE 0

CompleteCalls(resp) == 1

----------------------------------------------------------------------------
(* Progress counters *)

FormatRemaining(remainingChunks) ==
    IF remainingChunks <= 0 THEN "" ELSE ToString(remainingChunks)

\* updateEtr, applied n times in a row
RECURSIVE UpdateEtrTimes(_, _, _)
UpdateEtrTimes(n, completed, shown) ==
    IF n = 0 THEN [completed |-> completed, etr |-> shown]
    ELSE LET c2 == completed + 1
         IN  IF startTimeRef = 0 \/ totalChunksRef = 0
             THEN UpdateEtrTimes(n - 1, c2, shown)
             ELSE UpdateEtrTimes(n - 1, c2, FormatRemaining(totalChunksRef - c2))

\* Math.ceil(count / PDF_PAGE_CHUNK_SIZE)
NumChunksFloor(pageCount) == pageCount \div PDF_PAGE_CHUNK_SIZE

NumChunks(pageCount) == CeilDiv(pageCount, PDF_PAGE_CHUNK_SIZE)

TotalExtractionChunks(fs) == SumSeq([d \in 1..Len(fs) |-> NumChunks(fs[d])])

----------------------------------------------------------------------------
(* Chunk bookkeeping *)

\* pageChunks.map(async ...): every chunk starts rendering its pages, no call
\* has been made for it.
NewPageChunks(pageCount) ==
    LET pcs == PageChunksOf(pageCount, PDF_PAGE_CHUNK_SIZE)
    IN  [c \in 1..Len(pcs) |->
            [pages |-> pcs[c], rendered |-> {}, st |-> "rendering", calls |-> 0,
             resp |-> NoResponse]]

\* chunks.map(chunk => ai.models.generateContent(...)): one call per chunk,
\* issued when the chunk is mapped.
NewStdChunks(allRows) ==
    LET rcs == RowChunksOf(allRows, DATA_CHUNK_SIZE)
    IN  [i \in 1..Len(rcs) |->
            [rows |-> rcs[i], st |-> "pending", calls |-> 1, resp |-> NoResponse]]

PagesOf(chunk) == {chunk.pages[j] : j \in 1..Len(chunk.pages)}

\* await Promise.all(pageChunk.map(...)) has resolved
ImagesReadyAfterFirst(chunk, rendered) == rendered # {}

ImagesReady(chunk, rendered) == rendered = PagesOf(chunk)

\* A settled call is final: the chunk is not submitted again.
RetryOnce(resp, calls) ==
    IF resp.kind = "array" \/ calls >= 2 THEN [st |-> "settled", calls |-> calls]
    ELSE [st |-> "pending", calls |-> calls + 1]

AfterCall(resp, calls) == [st |-> "settled", calls |-> calls]

\* A chunk whose finally has not run yet
InFlight(chunk) == chunk.st # "settled"

NumInFlight(cs) == Cardinality({c \in 1..Len(cs) : InFlight(cs[c])})

AllSettled(cs) == \A c \in 1..Len(cs) : cs[c].st = "settled"

NumSettled(cs) == Cardinality({c \in 1..Len(cs) : cs[c].st = "settled"})

\* resolve(results.flat()) of one document
DocRows(cs) == Flat([c \in 1..Len(cs) |-> ParsedRows(cs[c].resp)])

\* extractionResults.flat(): Promise.all resolves with the results at the
\* index of their promise.
Reverse(ss) == [k \in 1..Len(ss) |-> ss[Len(ss) + 1 - k]]

ExtractedRowsAsCompleted(ch) ==
    IF "extraction" \in outOfOrder
    THEN Flat(Reverse([d \in 1..Len(ch) |-> DocRows(ch[d])]))
    ELSE Flat([d \in 1..Len(ch) |-> DocRows(ch[d])])

ExtractedRows(ch) == Flat([d \in 1..Len(ch) |-> DocRows(ch[d])])

\* finalStandardizedData after the forEach
StandardizedRows(scs) == Flat([i \in 1..Len(scs) |-> ParsedStd(scs[i].resp)])

\* finalData.map((row, index) => ({ "NO": index + 1, ... }))
DataForSheetHeaderOnly(data) == <<>>

DataForSheet(data) ==
    [k \in 1..Len(data) |->
        [NO |-> k,
         TANGGAL |-> data[k].TANGGAL,
         NOMOR_VOYAGE |-> data[k].NOMOR_VOYAGE,
         PELABUHAN_MUAT |-> data[k].PELABUHAN_MUAT,
         PELABUHAN_BONGKAR |-> data[k].PELABUHAN_BONGKAR,
         LAMA_PELAYARAN |-> data[k].LAMA_PELAYARAN,
         JUMLAH_PENUMPANG |-> data[k].JUMLAH_PENUMPANG]]

----------------------------------------------------------------------------
(* Messages *)

MsgNoKey == "Please enter your Google GenAI API key."
MsgNoFiles == "Please select at least one PDF file."
MsgTooFew == "Please select more than 10 PDF files."
MsgNoData == "No data could be extracted from the provided PDFs."
MsgNoStandard ==
    "Could not standardize the extracted table data. The model may have failed to understand the data structure."
MsgNoVoyages ==
    "Could not group the standardized data into voyages. Check if voyage numbers are present in the PDFs."
MsgUnknown ==
    "An unknown error occurred. Check if your API key is valid and has access to the Gemini API."
BlobUrl == "blob:compiled_voyage_logs.xlsx"

----------------------------------------------------------------------------
(* Initial values *)

NoRun ==
    /\ extraction = <<>>
    /\ chunks = <<>>
    /\ allExtractedRows = <<>>
    /\ stdChunks = <<>>
    /\ standardizedData = <<>>
    /\ finalData = <<>>
    /\ sheet = <<>>

NoChunkHarness ==
    /\ nItems = 0
    /\ chunkSize = 1
    /\ pageChunksOut = <<>>
    /\ rowChunksOut = <<>>

\* extractSummaryFromPdf is not running.
NoFileInWork ==
    /\ pageIdx = 0
    /\ totalPassengers = 0
    /\ voyageInfo = Null
    /\ pending = {}

\* The sequential variant is not running: its key is configured and its run
\* locals are empty.
NoSummaryRun ==
    /\ isConfigured = TRUE
    /\ progress = 0
    /\ failedFiles = <<>>
    /\ allSummaries = <<>>
    /\ localFailedFiles = <<>>
    /\ fileIdx = 0
    /\ NoFileInWork

\* No chunk of an earlier run is in flight.
NoLateChunks == staleChunks = 0 /\ outOfOrder = {}

FreshApp ==
    /\ files = <<>>
    /\ apiKey = ""
    /\ status = "idle"
    /\ progressMessage = ""
    /\ errorMessage = ""
    /\ downloadLink = Null
    /\ etr = ""
    /\ totalChunksRef = 0
    /\ completedChunksRef = 0
    /\ startTimeRef = 0

Init == FreshApp /\ pc = "idle" /\ NoRun /\ NoChunkHarness /\ NoSummaryRun /\ NoLateChunks

----------------------------------------------------------------------------
(* User interface handlers *)

OnePageDocs(n) == [d \in 1..n |-> 1]

\* A batch that passes the size check: the first MaxLiveDocs documents have
\* one page, the others none.
LiveBatch == [d \in 1..(MIN_FILES + 1) |-> IF d <= MaxLiveDocs THEN 1 ELSE 0]

FileBatches == {<<>>, OnePageDocs(2), LiveBatch}

SetApiKey(key) ==
    /\ status = "idle"
    /\ apiKey # key
    /\ apiKey' = key
    /\ UNCHANGED <<files, status, progressMessage, errorMessage, downloadLink, etr,
                   totalChunksRef, completedChunksRef, startTimeRef>>
    /\ UNCHANGED <<runVars, chunkVars, summaryVars, lateVars>>

handleFileChange(selectedFiles) ==
    /\ status = "idle"
    /\ IF Len(selectedFiles) > 0
       THEN /\ files' = selectedFiles
            /\ status' = "idle"
            /\ downloadLink' = Null
            /\ errorMessage' = ""
       ELSE UNCHANGED <<files, status, downloadLink, errorMessage>>
    /\ UNCHANGED <<apiKey, progressMessage, etr, totalChunksRef, completedChunksRef,
                   startTimeRef>>
    /\ UNCHANGED <<runVars, chunkVars, summaryVars, lateVars>>

resetState ==
    /\ status \in {"success", "error"}
    /\ files' = <<>>
    /\ status' = "idle"
    /\ progressMessage' = ""
    /\ errorMessage' = ""
    /\ downloadLink' = Null
    /\ etr' = ""
    /\ UNCHANGED <<apiKey, totalChunksRef, completedChunksRef, startTimeRef>>
    /\ pc' = "idle"
    /\ extraction' = <<>>
    /\ chunks' = <<>>
    /\ allExtractedRows' = <<>>
    /\ stdChunks' = <<>>
    /\ standardizedData' = <<>>
    /\ finalData' = <<>>
    /\ sheet' = <<>>
    /\ outOfOrder' = {}
    /\ UNCHANGED <<chunkVars, summaryVars, staleChunks>>

----------------------------------------------------------------------------
(* processFiles: the checks and the start of a run *)

MinFilesLow(n) == n <= 1

TooFewFiles(n) == n <= MIN_FILES

processFiles ==
    /\ pc \in {"idle", "done"}
    /\ IF apiKey = ""
       THEN /\ errorMessage' = MsgNoKey
            /\ UNCHANGED <<status, downloadLink, etr, totalChunksRef,
                           completedChunksRef, progressMessage>>
            /\ UNCHANGED runVars
       ELSE IF Len(files) = 0
       THEN /\ errorMessage' = MsgNoFiles
            /\ UNCHANGED <<status, downloadLink, etr, totalChunksRef,
                           completedChunksRef, progressMessage>>
            /\ UNCHANGED runVars
       ELSE IF TooFewFiles(Len(files))
       THEN /\ errorMessage' = MsgTooFew
            /\ status' = "error"
            /\ pc' = "done"
            /\ UNCHANGED <<downloadLink, etr, totalChunksRef, completedChunksRef,
                           progressMessage>>
            /\ UNCHANGED <<extraction, chunks, allExtractedRows, stdChunks,
                           standardizedData, finalData, sheet>>
       ELSE /\ status' = "processing"
            /\ errorMessage' = ""
            /\ downloadLink' = Null
            /\ etr' = ""
            /\ completedChunksRef' = 0
            /\ totalChunksRef' = 0
            /\ progressMessage' = "1/5: Analyzing workload..."
            /\ pc' = "analyzing"
            /\ extraction' = <<>>
            /\ chunks' = <<>>
            /\ allExtractedRows' = <<>>
            /\ stdChunks' = <<>>
            /\ standardizedData' = <<>>
            /\ finalData' = <<>>
            /\ sheet' = <<>>
    /\ outOfOrder' = {}
    /\ UNCHANGED <<files, apiKey, startTimeRef>>
    /\ UNCHANGED <<chunkVars, summaryVars, staleChunks>>

\* The button is rendered in the idle view and disabled for a short list or an
\* empty key.
ClickProcess ==
    /\ status = "idle"
    /\ ~(Len(files) <= MIN_FILES \/ apiKey = "")
    /\ processFiles

\* The page counts are known: the first estimate, and every document's
\* extraction is started.
AnalyzeDone ==
    /\ pc = "analyzing"
    /\ totalChunksRef' = TotalExtractionChunks(files) * 2
    /\ startTimeRef' = 1
    /\ progressMessage' =
          "2/5: Extracting data from " \o ToString(Len(files)) \o " PDFs..."
    /\ extraction' = [d \in 1..Len(files) |-> "pending"]
    /\ chunks' = [d \in 1..Len(files) |-> NewPageChunks(files[d])]
    /\ pc' = "extracting"
    /\ UNCHANGED <<files, apiKey, status, errorMessage, downloadLink, etr,
                   completedChunksRef>>
    /\ UNCHANGED <<allExtractedRows, stdChunks, standardizedData, finalData, sheet>>
    /\ UNCHANGED <<chunkVars, summaryVars, lateVars>>

----------------------------------------------------------------------------
(* processFiles: what follows each await *)

\* allExtractedRows.length === 0
NoRowsNever(rows) == FALSE

NoRows(rows) == Len(rows) = 0

\* finalData.length === 0
NoVoyagesNever(fin) == FALSE

NoVoyages(fin) == Len(fin) = 0

\* After await Promise.all(extractionPromises): the no-data check, the refined
\* total, and standardizeAllRows up to its calls being issued.
AfterExtraction(ch) ==
    LET rows == ExtractedRows(ch)
    IN  /\ allExtractedRows' = rows
        /\ IF NoRows(rows)
           THEN /\ errorMessage' = MsgNoData
                /\ status' = "error"
                /\ pc' = "done"
                /\ UNCHANGED <<totalChunksRef, progressMessage, stdChunks>>
           ELSE /\ totalChunksRef' =
                      TotalExtractionChunks(files) + CeilDiv(Len(rows), DATA_CHUNK_SIZE)
                /\ progressMessage' =
                      "3/5: Standardizing " \o ToString(Len(rows)) \o " rows..."
                /\ stdChunks' = NewStdChunks(rows)
                /\ pc' = "standardizing"
                /\ UNCHANGED <<errorMessage, status>>

\* After await standardizeAllRows: the two emptiness checks, aggregation and
\* the spreadsheet.
AfterStandardization(scs, shown) ==
    LET std == StandardizedRows(scs)
        fin == aggregateVoyages(std)
    IN  /\ standardizedData' = std
        /\ pc' = "done"
        /\ IF Len(std) = 0
           THEN /\ errorMessage' = MsgNoStandard
                /\ status' = "error"
                /\ etr' = shown
                /\ UNCHANGED <<finalData, sheet, downloadLink, progressMessage>>
           ELSE IF NoVoyages(fin)
           THEN /\ finalData' = fin
                /\ errorMessage' = MsgNoVoyages
                /\ status' = "error"
                /\ etr' = shown
                /\ progressMessage' = "4/5: Aggregating voyage logs..."
                /\ UNCHANGED <<sheet, downloadLink>>
           ELSE /\ finalData' = fin
                /\ sheet' = DataForSheet(fin)
                /\ downloadLink' = BlobUrl
                /\ progressMessage' = "Processing complete!"
                /\ status' = "success"
                /\ etr' = ""
                /\ UNCHANGED errorMessage

\* await Promise.all(extractionPromises) resumes when every promise has
\* resolved.
AnyFulfilled(ex) == \E d \in 1..Len(ex) : ex[d] = "resolved"

AllFulfilled(ex) == \A d \in 1..Len(ex) : ex[d] = "resolved"

\* A page chunk of a document selected earlier, or an earlier chunk of
\* document d, has not settled yet.
EarlierPageChunkInFlight(ch, d, c) ==
    \/ \E o \in 1..(d - 1) : \E b \in 1..Len(ch[o]) : InFlight(ch[o][b])
    \/ \E b \in 1..(c - 1) : InFlight(ch[d][b])

\* One step of the extraction of the documents: chunks and promises as given,
\* onChunkComplete called `calls` times, and the caller resumed when the last
\* promise has resolved: processFiles, or a direct caller that keeps the rows.
ExtractionStep(ch, ex, calls) ==
    LET u == UpdateEtrTimes(calls, completedChunksRef, etr)
    IN  /\ chunks' = ch
        /\ extraction' = ex
        /\ completedChunksRef' = u.completed
        /\ etr' = u.etr
        /\ IF pc = "extracting" /\ AllFulfilled(ex)
           THEN AfterExtraction(ch)
           ELSE IF pc = "unit_extract" /\ AllFulfilled(ex)
           THEN /\ allExtractedRows' = ExtractedRows(ch)
                /\ pc' = "unit_extract_done"
                /\ UNCHANGED <<errorMessage, status, totalChunksRef, progressMessage,
                               stdChunks>>
           ELSE UNCHANGED <<allExtractedRows, errorMessage, status, totalChunksRef,
                            progressMessage, stdChunks, pc>>
        /\ UNCHANGED <<files, apiKey, downloadLink, startTimeRef>>
        /\ UNCHANGED <<standardizedData, finalData, sheet>>
        /\ UNCHANGED <<chunkVars, summaryVars, staleChunks>>

\* extractTablesFromPdf of a document without pages: resolve([])
DocResolveEmpty(d) ==
    /\ pc \in {"extracting", "unit_extract"}
    /\ extraction[d] = "pending"
    /\ files[d] = 0
    /\ ExtractionStep(chunks, [extraction EXCEPT ![d] = "resolved"], 0)
    /\ UNCHANGED outOfOrder

\* The generateContent call of page chunk c of document d settles: it rejects,
\* or its answer is parsed. The document resolves with the last of its chunks.
ChunkSettle(d, c, resp) ==
    /\ pc \in {"extracting", "unit_extract"}
    /\ extraction[d] = "pending"
    /\ chunks[d][c].st = "calling"
    /\ LET after == AfterCall(resp, chunks[d][c].calls)
           ch == [chunks EXCEPT ![d][c].st = IF after.st = "settled" THEN "settled" ELSE "calling",
                                ![d][c].calls = after.calls,
                                ![d][c].resp = resp]
           ex == IF AllSettled(ch[d]) THEN [extraction EXCEPT ![d] = "resolved"]
                 ELSE extraction
       IN  ExtractionStep(ch, ex, IF after.st = "settled" THEN CompleteCalls(resp) ELSE 0)
    /\ outOfOrder' = IF EarlierPageChunkInFlight(chunks, d, c)
                     THEN outOfOrder \cup {"extraction"} ELSE outOfOrder

\* A page of chunk c has been rendered; with the last page the images are
\* ready and the chunk's generateContent call is issued.
PageRendered(d, c, p) ==
    /\ pc \in {"extracting", "unit_extract"}
    /\ extraction[d] = "pending"
    /\ chunks[d][c].st = "rendering"
    /\ p \in PagesOf(chunks[d][c]) \ chunks[d][c].rendered
    /\ LET rendered == chunks[d][c].rendered \cup {p}
           ready == ImagesReady(chunks[d][c], rendered)
           ch == [chunks EXCEPT ![d][c].rendered = rendered,
                                ![d][c].st = IF ready THEN "calling" ELSE "rendering",
                                ![d][c].calls = IF ready THEN @ + 1 ELSE @]
       IN  ExtractionStep(ch, extraction, 0)
    /\ UNCHANGED outOfOrder

\* A throw while rendering is caught by the try of the chunk it belongs to.
RenderFailureFailsDocument(cs, c) ==
    [o \in 1..Len(cs) |-> [cs[o] EXCEPT !.st = "settled", !.resp = RenderFailure]]

AfterRenderFailure(cs, c) ==
    [cs EXCEPT ![c].st = "settled", ![c].resp = RenderFailure]

\* getPage or render of a page of chunk c throws: the chunk's catch returns
\* [] and its finally counts it, without any call.
RenderFails(d, c, p) ==
    /\ pc \in {"extracting", "unit_extract"}
    /\ extraction[d] = "pending"
    /\ chunks[d][c].st = "rendering"
    /\ p \in PagesOf(chunks[d][c]) \ chunks[d][c].rendered
    /\ LET ch == [chunks EXCEPT ![d] = AfterRenderFailure(chunks[d], c)]
           ex == IF AllSettled(ch[d]) THEN [extraction EXCEPT ![d] = "resolved"]
                 ELSE extraction
       IN  ExtractionStep(ch, ex, CompleteCalls(RenderFailure))
    /\ outOfOrder' = IF EarlierPageChunkInFlight(chunks, d, c)
                     THEN outOfOrder \cup {"extraction"} ELSE outOfOrder

\* What a document that cannot be read or decoded makes its promise reject
\* with: the Error thrown by getDocument, or the event handed to
\* fileReader.onerror, which is no Error.
Thrown(isError, message) == [isError |-> isError, message |-> message]

DecodeError == Thrown(TRUE, "Invalid PDF structure.")

ReadErrorEvent == Thrown(FALSE, Undefined)

\* The promise of a document, rejected with what was thrown
RejectedWith(thrown) ==
    IF thrown.isError THEN "rejected: " \o thrown.message ELSE "rejected: [object ProgressEvent]"

CatchMessageUnknown(thrown) == MsgUnknown

\* error instanceof Error ? error.message : "An unknown error occurred. ..."
CatchMessage(thrown) == IF thrown.isError THEN thrown.message ELSE MsgUnknown

\* The catch of processFiles
CatchError(thrown) ==
    /\ errorMessage' = CatchMessage(thrown)
    /\ status' = "error"
    /\ pc' = "done"

\* The documents whose reading or decoding may fail: the last document with
\* pages and the first without.
UnreadableDocs == {MaxLiveDocs, MaxLiveDocs + 1}

\* The chunks of the other documents that are in flight when document d
\* rejects: Promise.all rejects with the first rejection and waits for none.
LeftInFlight(ch, d) ==
    SumSeq([o \in 1..Len(ch) |-> IF o = d THEN 0 ELSE NumInFlight(ch[o])])

\* Analysis: file.arrayBuffer() or getDocument of a file rejects, Promise.all
\* rejects and the catch of processFiles ends the run.
AnalyzeFails(thrown) ==
    /\ pc = "analyzing"
    /\ CatchError(thrown)
    /\ UNCHANGED <<files, apiKey, progressMessage, downloadLink, etr, totalChunksRef,
                   completedChunksRef, startTimeRef>>
    /\ UNCHANGED <<extraction, chunks, allExtractedRows, stdChunks, standardizedData,
                   finalData, sheet>>
    /\ UNCHANGED <<chunkVars, summaryVars, lateVars>>

\* extractTablesFromPdf of document d rejects before any of its chunks exists:
\* reject(err) in the catch of onload, or fileReader.onerror. Promise.all of
\* processFiles rejects at once and the catch ends the run; the chunks of the
\* other documents stay in flight.
DocReject(d, thrown) ==
    /\ pc = "extracting"
    /\ extraction[d] = "pending"
    /\ \A c \in 1..Len(chunks[d]) :
          chunks[d][c].st = "rendering" /\ chunks[d][c].rendered = {}
    /\ staleChunks + LeftInFlight(chunks, d) <= MaxStale
    /\ extraction' = [extraction EXCEPT ![d] = RejectedWith(thrown)]
    /\ chunks' = <<>>
    /\ staleChunks' = staleChunks + LeftInFlight(chunks, d)
    /\ CatchError(thrown)
    /\ UNCHANGED <<files, apiKey, progressMessage, downloadLink, etr, totalChunksRef,
                   completedChunksRef, startTimeRef>>
    /\ UNCHANGED <<allExtractedRows, stdChunks, standardizedData, finalData, sheet>>
    /\ UNCHANGED <<chunkVars, summaryVars, outOfOrder>>

\* A chunk of a run that has ended settles: its finally calls updateEtr, its
\* rows go nowhere.
StaleChunkSettles ==
    /\ staleChunks > 0
    /\ staleChunks' = staleChunks - 1
    /\ LET u == UpdateEtrTimes(1, completedChunksRef, etr)
       IN  completedChunksRef' = u.completed /\ etr' = u.etr
    /\ UNCHANGED <<files, apiKey, status, progressMessage, errorMessage, downloadLink,
                   totalChunksRef, startTimeRef>>
    /\ UNCHANGED <<runVars, chunkVars, summaryVars, outOfOrder>>

\* One standardization call settles; processFiles resumes after the last.
StdSettle(i, resp) ==
    /\ pc \in {"standardizing", "unit_standardize"}
    /\ stdChunks[i].st = "pending"
    /\ LET after == AfterCall(resp, stdChunks[i].calls)
           scs == [stdChunks EXCEPT ![i].st = after.st, ![i].calls = after.calls,
                                    ![i].resp = resp]
           u == UpdateEtrTimes(IF after.st = "settled" THEN CompleteCalls(resp) ELSE 0,
                               completedChunksRef, etr)
       IN  /\ stdChunks' = scs
           /\ completedChunksRef' = u.completed
           /\ IF pc = "standardizing" /\ AllSettled(scs)
              THEN AfterStandardization(scs, u.etr)
              ELSE /\ etr' = u.etr
                   /\ UNCHANGED <<standardizedData, pc, errorMessage, status, finalData,
                                  sheet, downloadLink, progressMessage>>
    /\ UNCHANGED <<files, apiKey, totalChunksRef, startTimeRef>>
    /\ UNCHANGED <<extraction, chunks, allExtractedRows>>
    /\ outOfOrder' = IF \E o \in 1..(i - 1) : stdChunks[o].st # "settled"
                     THEN outOfOrder \cup {"standardization"} ELSE outOfOrder
    /\ UNCHANGED <<chunkVars, summaryVars, staleChunks>>

----------------------------------------------------------------------------
(* The application *)

Next ==
    \/ \E key \in {"", "key"} : SetApiKey(key)
    \/ \E selectedFiles \in FileBatches : handleFileChange(selectedFiles)
    \/ resetState
    \/ ClickProcess
    \/ AnalyzeDone
    \/ AnalyzeFails(DecodeError)
    \/ \E d \in 1..Len(extraction) : DocResolveEmpty(d)
    \/ \E d \in UnreadableDocs : \E thrown \in {DecodeError, ReadErrorEvent} :
          DocReject(d, thrown)
    \/ StaleChunkSettles
    \/ \E d \in 1..Len(chunks) : \E c \in 1..Len(chunks[d]) :
          \E p \in PagesOf(chunks[d][c]) : PageRendered(d, c, p) \/ RenderFails(d, c, p)
    \/ \E d \in 1..Len(chunks) : \E c \in 1..Len(chunks[d]) :
          \E resp \in ExtractResponses : ChunkSettle(d, c, resp)
    \/ \E i \in 1..Len(stdChunks) :
          \E resp \in StdResponses(stdChunks[i].rows) : StdSettle(i, resp)

Spec == Init /\ [][Next]_vars

----------------------------------------------------------------------------
(* The chunking loops on their own *)

Items(n) == [i \in 1..n |-> i]

ChunkInputs ==
    {nk \in (0..MaxN \cup {DATA_CHUNK_SIZE, DATA_CHUNK_SIZE + 1, 2 * DATA_CHUNK_SIZE + 1})
              \X (1..MaxK \cup {PDF_PAGE_CHUNK_SIZE, DATA_CHUNK_SIZE}) :
        CeilDiv(nk[1], nk[2]) <= MaxN + 1}

InitChunk ==
    /\ FreshApp /\ NoRun /\ NoSummaryRun /\ NoLateChunks
    /\ pc = "unit_chunk"
    /\ \E nk \in ChunkInputs : nItems = nk[1] /\ chunkSize = nk[2]
    /\ pageChunksOut = <<>>
    /\ rowChunksOut = <<>>

PartitionCall ==
    /\ pc = "unit_chunk"
    /\ pageChunksOut' = PageChunksOf(nItems, chunkSize)
    /\ rowChunksOut' = RowChunksOf(Items(nItems), chunkSize)
    /\ pc' = "unit_chunk_done"
    /\ UNCHANGED <<nItems, chunkSize, appVars, summaryVars, lateVars>>
    /\ UNCHANGED <<extraction, chunks, allExtractedRows, stdChunks, standardizedData,
                   finalData, sheet>>

SpecChunk == InitChunk /\ [][PartitionCall]_vars

\* C1: N items cut with chunk size K give ceil(N/K) chunks, none empty and none
\* longer than K, whose concatenation in index order is the N items, each once;
\* no item gives no chunk. It holds of the page loop and of the row loop.
ChunkingPartitions ==
    pc = "unit_chunk_done" =>
        /\ Len(pageChunksOut) = CeilDiv(nItems, chunkSize)
        /\ Len(rowChunksOut) = CeilDiv(nItems, chunkSize)
        /\ Flat(pageChunksOut) = Items(nItems)
        /\ Flat(rowChunksOut) = Items(nItems)
        /\ \A c \in 1..Len(pageChunksOut) :
              Len(pageChunksOut[c]) \in 1..chunkSize /\ Len(rowChunksOut[c]) \in 1..chunkSize
        /\ (nItems = 0 => pageChunksOut = <<>> /\ rowChunksOut = <<>>)

ChunkingWitness ==
    /\ pc = "unit_chunk_done"
    /\ nItems = 2 * PDF_PAGE_CHUNK_SIZE + 1
    /\ chunkSize = PDF_PAGE_CHUNK_SIZE
    /\ Len(pageChunksOut) = 3
    /\ pageChunksOut[3] = <<nItems>>

----------------------------------------------------------------------------
(* aggregateVoyages on its own *)

StdRow(voyage, tanggal, muat, bongkar, lama, jumlah) ==
    [TANGGAL |-> tanggal,
     NOMOR_VOYAGE |-> voyage,
     PELABUHAN_MUAT |-> muat,
     PELABUHAN_BONGKAR |-> bongkar,
     LAMA_PELAYARAN |-> lama,
     JUMLAH_PENUMPANG |-> jumlah]

AggRowPool ==
    {StdRow(v, t, m, Null, Null, 0) :
        v \in {"V1", "V2"}, t \in {Null, "2024-01-01", "2024-01-02"}, m \in {Null, "A"}}
    \cup {StdRow(v, Null, Null, Null, Null, 0) : v \in {Null, Undefined, NA}}
    \cup {StdRow(NA, "2024-01-01", "A", Null, Null, 0),
          StdRow("V1", Null, Null, "B", Null, 0),
          StdRow("V1", Null, Null, Null, "5 Hari", 0),
          StdRow("V2", Null, Null, Null, Null, 45)}

AggInputs == UNION {[1..n -> AggRowPool] : n \in 0..MaxRows}

InitAggregate ==
    /\ FreshApp /\ NoChunkHarness /\ NoSummaryRun /\ NoLateChunks
    /\ pc = "unit_aggregate"
    /\ standardizedData \in AggInputs
    /\ extraction = <<>>
    /\ chunks = <<>>
    /\ allExtractedRows = <<>>
    /\ stdChunks = <<>>
    /\ finalData = <<>>
    /\ sheet = <<>>

AggregateCall ==
    /\ pc = "unit_aggregate"
    /\ finalData' = aggregateVoyages(standardizedData)
    /\ pc' = "unit_aggregate_done"
    /\ UNCHANGED <<appVars, chunkVars, summaryVars, lateVars>>
    /\ UNCHANGED <<extraction, chunks, allExtractedRows, stdChunks, standardizedData, sheet>>

SpecAggregate == InitAggregate /\ [][AggregateCall]_vars

SharedFields == {"TANGGAL", "PELABUHAN_MUAT", "PELABUHAN_BONGKAR", "LAMA_PELAYARAN"}

Usable(v) == Truthy(v) /\ v # NA

Excluded(voyageId) == voyageId \in {Null, Undefined, NA}

RowsOfVoyage(rows, voyageId) == {i \in 1..Len(rows) : rows[i].NOMOR_VOYAGE = voyageId}

RecordsOfVoyage(data, voyageId) == {k \in 1..Len(data) : data[k].NOMOR_VOYAGE = voyageId}

UsableVoyages(rows) ==
    {rows[i].NOMOR_VOYAGE : i \in {j \in 1..Len(rows) : Usable(rows[j].NOMOR_VOYAGE)}}

HasVoyage(row) == ~Excluded(row.NOMOR_VOYAGE)

GroupingExample ==
    <<StdRow("V1", "2024-01-01", Null, Null, Null, 0),
      StdRow("V1", Null, "A", Null, Null, 0)>>

\* C3: the two rows of voyage V1, one with the date only and one with the
\* loading port only, give exactly one record for V1, dated 2024-01-01, port A,
\* 2 passengers; and whatever the rows, each voyage has one record, in which
\* every shared field that some row of the voyage has is filled with a value
\* of one of these rows.
MergedRecordCarriesEveryField ==
    pc = "unit_aggregate_done" =>
        /\ standardizedData = GroupingExample =>
              /\ Len(finalData) = 1
              /\ finalData[1].NOMOR_VOYAGE = "V1"
              /\ finalData[1].TANGGAL = "2024-01-01"
              /\ finalData[1].PELABUHAN_MUAT = "A"
              /\ finalData[1].JUMLAH_PENUMPANG = 2
        /\ \A v \in UsableVoyages(standardizedData) :
              /\ Cardinality(RecordsOfVoyage(finalData, v)) = 1
              /\ \A k \in RecordsOfVoyage(finalData, v) : \A f \in SharedFields :
                    (\E i \in RowsOfVoyage(standardizedData, v) : Usable(standardizedData[i][f]))
                        => /\ Usable(finalData[k][f])
                           /\ \E i \in RowsOfVoyage(standardizedData, v) :
                                 standardizedData[i][f] = finalData[k][f]

MergedRecordWitness ==
    /\ pc = "unit_aggregate_done"
    /\ standardizedData = GroupingExample
    /\ Len(finalData) = 1
    /\ finalData[1].PELABUHAN_MUAT = "A"

\* C4: no record has a NOMOR_VOYAGE that is null, absent or 'N/A', and the
\* records are those of the input with every such row removed.
ExcludedRowsContributeNothing ==
    pc = "unit_aggregate_done" =>
        /\ \A k \in 1..Len(finalData) : ~Excluded(finalData[k].NOMOR_VOYAGE)
        /\ finalData = aggregateVoyages(SelectSeq(standardizedData, HasVoyage))

ExcludedRowsWitness ==
    /\ pc = "unit_aggregate_done"
    /\ Len(standardizedData) = 3
    /\ standardizedData[1].NOMOR_VOYAGE = "V1"
    /\ standardizedData[2].NOMOR_VOYAGE = NA
    /\ standardizedData[2].TANGGAL = "2024-01-01"
    /\ standardizedData[3].NOMOR_VOYAGE = Null
    /\ Len(finalData) = 1

PreAggregated(row) == row.JUMLAH_PENUMPANG > 0

\* C5: a row with a positive JUMLAH_PENUMPANG and a voyage number has a record
\* of its own with that count, and a row of the same voyage without a count has
\* another.
PreAggregatedRowStaysSingleton ==
    pc = "unit_aggregate_done" =>
        \A i \in 1..Len(standardizedData) :
            PreAggregated(standardizedData[i]) /\ HasVoyage(standardizedData[i]) =>
                /\ \E k \in 1..Len(finalData) :
                      /\ finalData[k].NOMOR_VOYAGE = standardizedData[i].NOMOR_VOYAGE
                      /\ finalData[k].JUMLAH_PENUMPANG = standardizedData[i].JUMLAH_PENUMPANG
                /\ \A j \in 1..Len(standardizedData) :
                      /\ ~PreAggregated(standardizedData[j])
                      /\ standardizedData[j].NOMOR_VOYAGE = standardizedData[i].NOMOR_VOYAGE
                      => Cardinality(RecordsOfVoyage(finalData,
                                                     standardizedData[i].NOMOR_VOYAGE)) >= 2

PerPassengerRows(rows) ==
    {i \in 1..Len(rows) : HasVoyage(rows[i]) /\ Truthy(rows[i].NOMOR_VOYAGE)
                            /\ ~PreAggregated(rows[i])}

FirstIndex(S) == CHOOSE i \in S : \A j \in S : i <= j

RowsWithField(rows, voyageId, f) ==
    {i \in RowsOfVoyage(rows, voyageId) : Usable(rows[i][f])}

\* C17: in the record of a voyage, every shared field has the value of the
\* first row of the voyage, in input order, that has a value for it (not null,
\* absent or 'N/A'); a later row never replaces it, and the field is 'N/A'
\* exactly when no row of the voyage has a value.
FirstValueWins ==
    pc = "unit_aggregate_done" =>
        \A k \in 1..Len(finalData) : \A f \in SharedFields :
            LET having == RowsWithField(standardizedData, finalData[k].NOMOR_VOYAGE, f)
            IN  finalData[k][f] =
                    IF having = {} THEN NA ELSE standardizedData[FirstIndex(having)][f]

FirstValueWitness ==
    /\ pc = "unit_aggregate_done"
    /\ Len(standardizedData) = 3
    /\ \A i \in 1..3 : standardizedData[i].NOMOR_VOYAGE = "V1"
    /\ standardizedData[1].TANGGAL = Null
    /\ standardizedData[2].TANGGAL = "2024-01-02"
    /\ standardizedData[3].TANGGAL = "2024-01-01"
    /\ Len(finalData) = 1
    /\ finalData[1].TANGGAL = "2024-01-02"
    /\ finalData[1].PELABUHAN_BONGKAR = NA

\* C18: every record's JUMLAH_PENUMPANG is the number of input rows of its
\* voyage, at least 1, and the counts of all records add up to the number of
\* input rows that have a usable NOMOR_VOYAGE.
CountIsGroupSize ==
    pc = "unit_aggregate_done" =>
        /\ \A k \in 1..Len(finalData) :
              /\ finalData[k].JUMLAH_PENUMPANG >= 1
              /\ finalData[k].JUMLAH_PENUMPANG =
                    Cardinality(RowsOfVoyage(standardizedData, finalData[k].NOMOR_VOYAGE))
        /\ SumSeq([k \in 1..Len(finalData) |-> finalData[k].JUMLAH_PENUMPANG]) =
              Cardinality({i \in 1..Len(standardizedData) :
                              Usable(standardizedData[i].NOMOR_VOYAGE)})

CountIsGroupSizeWitness ==
    /\ pc = "unit_aggregate_done"
    /\ Len(standardizedData) = 3
    /\ standardizedData[1].NOMOR_VOYAGE = "V1"
    /\ standardizedData[2].NOMOR_VOYAGE = NA
    /\ standardizedData[3].NOMOR_VOYAGE = "V1"
    /\ Len(finalData) = 1
    /\ finalData[1].JUMLAH_PENUMPANG = 2

\* C19: the records come in the order in which their voyages first occur in
\* the input.
FirstSeenOrder ==
    pc = "unit_aggregate_done" =>
        \A k1, k2 \in 1..Len(finalData) :
            k1 < k2 =>
                FirstIndex(RowsOfVoyage(standardizedData, finalData[k1].NOMOR_VOYAGE))
                    < FirstIndex(RowsOfVoyage(standardizedData, finalData[k2].NOMOR_VOYAGE))

FirstSeenOrderWitness ==
    /\ pc = "unit_aggregate_done"
    /\ Len(standardizedData) = 3
    /\ standardizedData[1].NOMOR_VOYAGE = "V2"
    /\ standardizedData[2].NOMOR_VOYAGE = "V1"
    /\ standardizedData[3].NOMOR_VOYAGE = "V2"
    /\ Len(finalData) = 2
    /\ finalData[1].NOMOR_VOYAGE = "V2"
    /\ finalData[2].NOMOR_VOYAGE = "V1"

----------------------------------------------------------------------------
(* extractTablesFromPdf on its own: one document, called with updateEtr *)

InitExtract ==
    /\ NoChunkHarness /\ NoSummaryRun /\ NoLateChunks
    /\ files \in {<<pageCount>> : pageCount \in 0..MaxPages}
    /\ apiKey = "key"
    /\ status = "processing"
    /\ progressMessage = ""
    /\ errorMessage = ""
    /\ downloadLink = Null
    /\ etr = ""
    /\ totalChunksRef = TotalExtractionChunks(files) * 2
    /\ completedChunksRef = 0
    /\ startTimeRef = 1
    /\ pc = "unit_extract"
    /\ extraction = <<"pending">>
    /\ chunks = <<NewPageChunks(files[1])>>
    /\ allExtractedRows = <<>>
    /\ stdChunks = <<>>
    /\ standardizedData = <<>>
    /\ finalData = <<>>
    /\ sheet = <<>>

NextExtract ==
    \/ DocResolveEmpty(1)
    \/ \E c \in 1..Len(chunks[1]) : \E p \in PagesOf(chunks[1][c]) :
          PageRendered(1, c, p) \/ RenderFails(1, c, p)
    \/ \E c \in 1..Len(chunks[1]) : \E resp \in ExtractResponses : ChunkSettle(1, c, resp)

SpecExtract == InitExtract /\ [][NextExtract]_vars

Failed(chunk) == chunk.st = "settled" /\ chunk.resp.kind \in FailureKinds

RowsUnlessFailed(chunk) == IF Failed(chunk) THEN <<>> ELSE chunk.resp.rows

\* C2: whichever chunks of a document throw, extractTablesFromPdf resolves once
\* every chunk has settled, its rows are the rows of the chunks that did not
\* fail, in chunk order, and the completed counter has grown by the number of
\* chunks.
ChunkFailureIsolated ==
    /\ Len(chunks[1]) > 0 /\ AllSettled(chunks[1]) => pc = "unit_extract_done"
    /\ pc = "unit_extract_done" =>
          /\ extraction[1] = "resolved"
          /\ allExtractedRows =
                Flat([c \in 1..Len(chunks[1]) |-> RowsUnlessFailed(chunks[1][c])])
          /\ completedChunksRef = Len(chunks[1])

ChunkFailureWitness ==
    /\ pc = "unit_extract_done"
    /\ Len(chunks[1]) = 3
    /\ chunks[1][1].resp = Response("array", TwoRows)
    /\ chunks[1][2].resp.kind = "throws"
    /\ chunks[1][3].resp = Response("array", TwoRows)
    /\ allExtractedRows = TwoRows \o TwoRows
    /\ completedChunksRef = 3

----------------------------------------------------------------------------
(* The end-to-end scenario: one-page documents, every extraction call       *)
(* answering the same two rows of voyage V100, standardization one-to-one.  *)

InitScenario ==
    /\ NoRun /\ NoChunkHarness /\ NoSummaryRun /\ NoLateChunks
    /\ files \in {OnePageDocs(2), OnePageDocs(MIN_FILES + 1)}
    /\ apiKey = "key"
    /\ status = "idle"
    /\ progressMessage = ""
    /\ errorMessage = ""
    /\ downloadLink = Null
    /\ etr = ""
    /\ totalChunksRef = 0
    /\ completedChunksRef = 0
    /\ startTimeRef = 0
    /\ pc = "idle"

NextScenario ==
    \/ status = "idle" /\ processFiles
    \/ AnalyzeDone
    \/ \E d \in 1..Len(chunks) : PageRendered(d, 1, 1)
    \/ \E d \in 1..Len(chunks) : ChunkSettle(d, 1, Response("array", TwoRows))
    \/ \E i \in 1..Len(stdChunks) :
          StdSettle(i, Response("array", Faithful(stdChunks[i].rows)))

SpecScenario == InitScenario /\ [][NextScenario]_vars

ScenarioRecord(count) ==
    [TANGGAL |-> "2024-05-01",
     NOMOR_VOYAGE |-> "V100",
     PELABUHAN_MUAT |-> NA,
     PELABUHAN_BONGKAR |-> NA,
     LAMA_PELAYARAN |-> NA,
     JUMLAH_PENUMPANG |-> count]

\* C8 as stated: the run over 2 documents ends in success with the one record
\* V100, 2024-05-01, 4 passengers.
TwoDocumentRunSucceeds ==
    pc = "done" /\ Len(files) = 2 =>
        status = "success" /\ finalData = <<ScenarioRecord(4)>>

\* C8 as amended: processFiles refuses a list of 10 files or fewer, so the run
\* over 2 documents ends in error with the too-few-files message and without a
\* spreadsheet; the run over 11 such documents ends in success with the one
\* record V100, 2024-05-01, 2 passengers per document.
ScenarioNeedsElevenDocuments ==
    pc = "done" =>
        IF Len(files) <= MIN_FILES
        THEN status = "error" /\ errorMessage = MsgTooFew /\ sheet = <<>>
                /\ downloadLink = Null
        ELSE /\ status = "success"
             /\ finalData = <<ScenarioRecord(2 * Len(files))>>
             /\ Len(sheet) = 1
             /\ downloadLink = BlobUrl

ScenarioWitness ==
    /\ pc = "done"
    /\ Len(files) = MIN_FILES + 1
    /\ status = "success"
    /\ Len(finalData) = 1
    /\ finalData[1].JUMLAH_PENUMPANG = 22

----------------------------------------------------------------------------
(* Claims about a run of the application *)

SettledPageChunks == SumSeq([d \in 1..Len(chunks) |-> NumSettled(chunks[d])])

\* The chunks of the run that settle in the step
NewlySettled ==
    Cardinality({dc \in {<<d, c>> : d \in 1..Len(chunks), c \in 1..PDF_PAGE_CHUNK_SIZE} :
                    /\ dc[2] <= Len(chunks[dc[1]])
                    /\ dc[1] <= Len(chunks') /\ dc[2] <= Len(chunks'[dc[1]])
                    /\ chunks[dc[1]][dc[2]].st # "settled"
                    /\ chunks'[dc[1]][dc[2]].st = "settled"})
    + Cardinality({i \in 1..Len(stdChunks) :
                    /\ i <= Len(stdChunks')
                    /\ stdChunks[i].st # "settled"
                    /\ stdChunks'[i].st = "settled"})

\* The chunks of ended runs that settle in the step
LateSettled == IF staleChunks' < staleChunks THEN staleChunks - staleChunks' ELSE 0

CountedStep ==
    completedChunksRef' =
        IF pc # "analyzing" /\ pc' = "analyzing" THEN 0
        ELSE completedChunksRef + NewlySettled + LateSettled

\* C9: the completed counter is set to 0 when a run starts and from then on
\* grows by one with each page chunk and each standardization chunk that
\* settles, whether it gave an array, threw, or answered something unparseable
\* or not an array, and by nothing else.
EveryChunkCountedOnce == [][CountedStep]_vars

EveryChunkCountedWitness ==
    /\ pc = "done"
    /\ \E d \in 1..Len(chunks) : \E c \in 1..Len(chunks[d]) :
          chunks[d][c].resp.kind = "throws"
    /\ Len(stdChunks) = 1
    /\ stdChunks[1].resp.kind = "unparseable"
    /\ completedChunksRef = 3

\* C10: a standardization chunk whose call rejects or whose answer is no JSON
\* array gives no row, the stage resolves as soon as every call has settled,
\* and its result is the concatenation of the arrays of the other chunks.
StandardizationFailureIsolated ==
    /\ pc = "standardizing" => ~AllSettled(stdChunks)
    /\ pc = "done" /\ Len(stdChunks) > 0 =>
          /\ AllSettled(stdChunks)
          /\ standardizedData =
                Flat([i \in 1..Len(stdChunks) |-> RowsUnlessFailed(stdChunks[i])])

StandardizationFailureWitness ==
    /\ pc = "done"
    /\ Len(stdChunks) = 2
    /\ stdChunks[1].resp.kind = "throws"
    /\ stdChunks[2].resp.kind = "array"
    /\ Len(stdChunks[2].rows) = 2
    /\ standardizedData = Faithful(TwoRows)
    /\ status = "success"

AllResolved == Len(extraction) > 0 /\ \A d \in 1..Len(extraction) : extraction[d] = "resolved"

\* The run that has just ended and whose outcome is on display.
RunEnded == pc = "done" /\ status # "idle"

\* C11: when every document has been processed and the combined raw rows are
\* empty, the run has ended in error with the no-data message, which is not
\* the no-voyages message; no standardization call was issued and there is no
\* spreadsheet.
NoDataEndsRun ==
    AllResolved /\ ExtractedRows(chunks) = <<>> /\ status # "idle" =>
        /\ pc = "done"
        /\ status = "error"
        /\ errorMessage = MsgNoData
        /\ MsgNoData # MsgNoVoyages
        /\ stdChunks = <<>>
        /\ sheet = <<>>
        /\ downloadLink = Null

NoDataWitness ==
    /\ RunEnded
    /\ errorMessage = MsgNoData
    /\ \E d \in 1..Len(chunks) : Len(chunks[d]) = 1 /\ chunks[d][1].resp = Response("array", <<>>)
    /\ \E d \in 1..Len(chunks) : Len(chunks[d]) = 1 /\ chunks[d][1].resp.kind = "unparseable"

NoUsableVoyage(rows) == \A i \in 1..Len(rows) : ~Usable(rows[i].NOMOR_VOYAGE)

\* C12: when standardization gave at least one row and no row has a usable
\* NOMOR_VOYAGE, the run ends in error with the no-voyages message, which is
\* neither the no-data nor the standardization-failed message, and there is no
\* spreadsheet.
NoVoyagesEndsRun ==
    RunEnded /\ Len(standardizedData) > 0 /\ NoUsableVoyage(standardizedData) =>
        /\ status = "error"
        /\ errorMessage = MsgNoVoyages
        /\ MsgNoVoyages \notin {MsgNoData, MsgNoStandard}
        /\ sheet = <<>>
        /\ downloadLink = Null

NoVoyagesWitness ==
    /\ RunEnded
    /\ Len(standardizedData) = 2
    /\ standardizedData[1].NOMOR_VOYAGE = NA
    /\ standardizedData[1].TANGGAL = "2024-05-01"
    /\ errorMessage = MsgNoVoyages

GenericMessages == {MsgNoData, MsgNoStandard, MsgNoVoyages}

EveryCallUnauthorized ==
    /\ \E d \in 1..Len(chunks) : Len(chunks[d]) > 0
    /\ \A d \in 1..Len(chunks) : \A c \in 1..Len(chunks[d]) :
          chunks[d][c].resp.kind = "unauthorized"

\* C13: a run in which every extractor call was refused for its key ends in a
\* failure of its own, told apart from the no-data, standardization-failed and
\* no-voyages failures.
CredentialRejectionIsReported ==
    RunEnded /\ EveryCallUnauthorized =>
        status = "error" /\ errorMessage \notin GenericMessages

\* C16: a settled standardization chunk contributes at most as many rows as
\* it was given, and the standardized rows of a run are at most as many as its
\* raw rows.
StandardizedCountBounded ==
    /\ \A i \in 1..Len(stdChunks) :
          stdChunks[i].st = "settled" =>
              Len(ParsedStd(stdChunks[i].resp)) <= Len(stdChunks[i].rows)
    /\ RunEnded => Len(standardizedData) <= Len(allExtractedRows)

CallsAtMostOnce ==
    /\ \A d \in 1..Len(chunks) : \A c \in 1..Len(chunks[d]) : chunks[d][c].calls <= 1
    /\ \A i \in 1..Len(stdChunks) : stdChunks[i].calls <= 1

FailedChunkIsFinal ==
    /\ \A d \in 1..Len(chunks) : \A c \in 1..Len(chunks[d]) :
          Failed(chunks[d][c]) /\ d <= Len(chunks') =>
              c <= Len(chunks'[d]) /\ chunks'[d][c] = chunks[d][c]
    /\ \A i \in 1..Len(stdChunks) :
          Failed(stdChunks[i]) /\ i <= Len(stdChunks') => stdChunks'[i] = stdChunks[i]

FailedRowsAbsent ==
    /\ AllResolved /\ pc # "extracting" =>
          allExtractedRows =
              Flat([d \in 1..Len(chunks) |->
                      Flat([c \in 1..Len(chunks[d]) |-> RowsUnlessFailed(chunks[d][c])])])
    /\ RunEnded /\ Len(stdChunks) > 0 =>
          standardizedData =
              Flat([i \in 1..Len(stdChunks) |-> RowsUnlessFailed(stdChunks[i])])

\* C14: no page chunk and no standardization chunk is ever submitted to the
\* extractor more than once; a chunk that has failed stays as it is for the
\* rest of the run, and no row of it is in the run's rows.
NoRetryOfFailedChunks ==
    [](CallsAtMostOnce /\ FailedRowsAbsent) /\ [][FailedChunkIsFinal]_vars

NoRetryWitness ==
    /\ RunEnded
    /\ status = "success"
    /\ chunks[1][1].resp.kind = "throws"
    /\ chunks[1][1].calls = 1
    /\ chunks[2][1].resp = Response("array", TwoRows)
    /\ allExtractedRows = TwoRows
    /\ Len(stdChunks) = 1
    /\ stdChunks[1].calls = 1

\* C20: a page chunk's call has been issued only if every page of the chunk
\* has been rendered; while pages are being rendered, and after a page has
\* failed to render, no call has been issued for the chunk.
CallOnlyWhenImagesReady ==
    \A d \in 1..Len(chunks) : \A c \in 1..Len(chunks[d]) :
        LET chunk == chunks[d][c]
        IN  /\ chunk.calls > 0 \/ chunk.st = "calling" => chunk.rendered = PagesOf(chunk)
            /\ chunk.st = "rendering" => chunk.calls = 0
            /\ chunk.resp = RenderFailure =>
                  chunk.calls = 0 /\ chunk.rendered # PagesOf(chunk)
            /\ chunk.st = "settled" /\ chunk.resp # RenderFailure => chunk.calls = 1

CallOnlyWhenImagesReadyWitness ==
    /\ pc = "unit_extract"
    /\ Len(chunks[1]) = 2
    /\ chunks[1][1].st = "calling"
    /\ chunks[1][1].rendered = 1..PDF_PAGE_CHUNK_SIZE
    /\ chunks[1][1].calls = 1
    /\ chunks[1][2].resp = RenderFailure
    /\ chunks[1][2].rendered = {PDF_PAGE_CHUNK_SIZE + 1}
    /\ Len(chunks[1][2].pages) >= 2

RenderFailed(chunk) == chunk.st = "settled" /\ chunk.resp = RenderFailure

RenderFailureStep ==
    \A c \in 1..Len(chunks[1]) :
        ~RenderFailed(chunks[1][c]) /\ RenderFailed(chunks'[1][c]) =>
            /\ \A o \in 1..Len(chunks[1]) : o # c => chunks'[1][o] = chunks[1][o]
            /\ completedChunksRef' = completedChunksRef + 1
            /\ extraction'[1] \in {"pending", "resolved"}
            /\ status' = status /\ errorMessage' = errorMessage

RenderFailureRows ==
    pc = "unit_extract_done" =>
        /\ extraction[1] = "resolved"
        /\ status = "processing" /\ errorMessage = ""
        /\ allExtractedRows =
              Flat([c \in 1..Len(chunks[1]) |->
                      IF RenderFailed(chunks[1][c]) THEN <<>>
                      ELSE ParsedRows(chunks[1][c].resp)])

\* C21: a page that fails to render settles the chunk it belongs to, and only
\* that chunk: the chunk gives no row and is counted once, the other chunks of
\* the document are left as they are and their rows are in the document's
\* rows, and the document's extraction resolves without an error being set.
RenderFailureIsolated == []RenderFailureRows /\ [][RenderFailureStep]_vars

RenderFailureWitness ==
    /\ pc = "unit_extract_done"
    /\ Len(chunks[1]) = 3
    /\ chunks[1][1].resp = Response("array", TwoRows)
    /\ RenderFailed(chunks[1][2])
    /\ chunks[1][2].rendered # {}
    /\ chunks[1][3].resp = Response("array", HundredRows)
    /\ allExtractedRows = TwoRows \o HundredRows
    /\ completedChunksRef = 3

Rejections == {RejectedWith(DecodeError), RejectedWith(ReadErrorEvent)}

SomeRejected == \E d \in 1..Len(extraction) : extraction[d] \in Rejections

NoPageChunkInFlight ==
    \A d \in 1..Len(chunks) : \A c \in 1..Len(chunks[d]) : ~InFlight(chunks[d][c])

\* C26: standardization calls have been issued only if every document's
\* extraction has resolved and no page chunk of the run is in flight; while a
\* page chunk is in flight, and when a document's extraction has rejected, no
\* standardization call has been issued.
StandardizationAfterExtraction ==
    /\ Len(stdChunks) > 0 \/ pc = "standardizing" =>
          AllResolved /\ NoPageChunkInFlight /\ ~SomeRejected
    /\ ~NoPageChunkInFlight => stdChunks = <<>>
    /\ SomeRejected => stdChunks = <<>> /\ pc = "done"

StandardizationAfterExtractionWitness ==
    /\ pc = "standardizing"
    /\ Len(stdChunks) = 2
    /\ stdChunks[1].st = "pending" /\ stdChunks[2].st = "pending"
    /\ Len(chunks) = MIN_FILES + 1
    /\ chunks[1][1].resp = Response("array", HundredRows)
    /\ chunks[2][1].resp = Response("array", TwoRows)

\* The counter holds chunks of the run in progress only: no chunk of an
\* earlier run has been counted since the run started.
OwnChunksOnly == completedChunksRef = SettledPageChunks + NumSettled(stdChunks)

TotalIsSet == pc \in {"extracting", "standardizing"} \/ (pc = "done" /\ AllResolved)

\* C24: in a run whose counter holds its own chunks only, once the total has
\* been set (the first estimate during extraction, the refined total from
\* standardization on) 0 <= completed <= total, so the remaining count of
\* updateEtr is not negative, and at success completed = total.
CompletedWithinTotal ==
    OwnChunksOnly /\ TotalIsSet =>
        /\ 0 <= completedChunksRef
        /\ completedChunksRef <= totalChunksRef
        /\ totalChunksRef - completedChunksRef >= 0
        /\ pc = "extracting" => totalChunksRef = 2 * TotalExtractionChunks(files)
        /\ pc = "standardizing" =>
              totalChunksRef = TotalExtractionChunks(files) + Len(stdChunks)
        /\ status = "success" => completedChunksRef = totalChunksRef

CompletedWithinTotalWitness ==
    /\ pc = "done"
    /\ status = "success"
    /\ Len(stdChunks) = 2
    /\ OwnChunksOnly
    /\ completedChunksRef = 4
    /\ totalChunksRef = 4

\* The rows a settled chunk gave
GivenRows(chunk) == IF chunk.resp.kind = "array" THEN chunk.resp.rows ELSE <<>>

\* The position in the concatenation at which the rows of part k start
Offset(parts, k) == SumSeq([j \in 1..(k - 1) |-> Len(parts[j])])

\* `rows` holds the rows of every part at the part's offset, and nothing else.
InIndexOrder(rows, parts) ==
    /\ Len(rows) = Offset(parts, Len(parts) + 1)
    /\ \A k \in 1..Len(parts) : \A j \in 1..Len(parts[k]) :
          rows[Offset(parts, k) + j] = parts[k][j]

PageChunkParts ==
    [d \in 1..Len(chunks) |->
        Flat([c \in 1..Len(chunks[d]) |-> GivenRows(chunks[d][c])])]

OutcomeMatchesDownload ==
    /\ status = "success" => downloadLink # Null /\ Len(sheet) >= 1
    /\ status = "error" => downloadLink = Null

OutcomeMatchesDownloadWitness ==
    /\ status = "success"
    /\ downloadLink = BlobUrl
    /\ Len(sheet) = 2
    /\ sheet[1].NO = 1 /\ sheet[2].NO = 2
    /\ sheet[2].JUMLAH_PENUMPANG = DATA_CHUNK_SIZE

\* C25: while a run is processing, the completed counter is the number of
\* chunks of that run that have settled, and the estimate on display was
\* computed from that number: a chunk of an earlier run that settles now
\* changes neither.
LateChunksNotCounted ==
    status = "processing" =>
        /\ completedChunksRef = SettledPageChunks + NumSettled(stdChunks)
        /\ etr \in {"", FormatRemaining(totalChunksRef - completedChunksRef)}

----------------------------------------------------------------------------
(* The sequential summary variant (src/index.tsx): one summary per file,    *)
(* the files processed one after another.                                   *)

MaxSummaryFiles == 3
MaxSummaryPages == 2

MsgNoSummaries ==
    "Could not extract any voyage summaries from the provided PDFs. Please ensure the files are valid manifests and try again."

MsgNoneProcessed(n) ==
    "None of the files could be processed successfully. Failed files: " \o ToString(n) \o "."

\* The message of an Error thrown in the try block that does not name the key.
MsgThrown == "Invalid workbook"

MsgProcessing(i, n) == "Processing file " \o ToString(i) \o "/" \o ToString(n)

MsgComplete(ok, failed) ==
    IF failed > 0
    THEN "Processing complete! " \o ToString(ok) \o " succeeded, " \o ToString(failed) \o " failed."
    ELSE "Processing complete! " \o ToString(ok) \o " files successfully processed."

Percent(i, n) == (i * 100) \div n

\* What extractSummaryFromPdf resolves with: null, or the summary of the file.
NoSummary == [null |-> TRUE, NOMOR_VOYAGE |-> Null, JUMLAH_PENUMPANG |-> 0]

Summary(voyage, count) == [null |-> FALSE, NOMOR_VOYAGE |-> voyage, JUMLAH_PENUMPANG |-> count]

\* An awaited operation of extractSummaryFromPdf: the loading of the file
\* (file.arrayBuffer, getDocument), the rasterization of a page (getPage,
\* render) or the generateContent call of a page.
Op(file, page, kind) == [file |-> file, page |-> page, kind |-> kind]

\* How an awaited operation ends: it throws (for a call also: its text is no
\* JSON), or it gives its value; a call gives the page's object.
Throws == [ok |-> FALSE, voyage |-> Null, count |-> 0]

Gives(voyage, count) == [ok |-> TRUE, voyage |-> voyage, count |-> count]

OutcomesOf(op) ==
    IF op.kind = "call" THEN {Throws, Gives("KM A", 0), Gives("KM A", 3)}
    ELSE {Throws, Gives(Null, 0)}

\* for (let i = 0; ...) { ... await extractSummaryFromPdf(file, ai) }: the
\* loop starts with the first file.
FirstOpsAllAtOnce(n) == {Op(f, 0, "load") : f \in 1..n}

FirstOps(n) == {Op(1, 0, "load")}

ValidSummaries(summaries) ==
    LET Counted(sm) == sm.JUMLAH_PENUMPANG > 0 IN SelectSeq(summaries, Counted)

SummarySheet(valid) ==
    [k \in 1..Len(valid) |->
        [NO |-> k,
         NOMOR_VOYAGE |-> IF Truthy(valid[k].NOMOR_VOYAGE) THEN valid[k].NOMOR_VOYAGE ELSE "",
         JUMLAH_PENUMPANG |-> valid[k].JUMLAH_PENUMPANG]]

\* What the statements of the try block outside extractSummaryFromPdf can do:
\* return, throw an Error whose message contains "API Key", throw another.
TryOutcomes == {"returns", "throws_api_key", "throws_other"}

KeyInputs == {"", " ", "key", " key "}

Trim(str) == CASE str = " " -> "" [] str = " key " -> "key" [] OTHER -> str

SummaryBatches == UNION {[1..n -> 0..MaxSummaryPages] : n \in 0..MaxSummaryFiles}

InitSummary ==
    /\ FreshApp /\ NoRun /\ NoChunkHarness
    /\ pc = "idle"
    /\ isConfigured = FALSE
    /\ progress = 0
    /\ failedFiles = <<>>
    /\ allSummaries = <<>>
    /\ localFailedFiles = <<>>
    /\ fileIdx = 0
    /\ NoFileInWork
    /\ NoLateChunks

handleApiKeySubmit(apiKeyInput) ==
    /\ isConfigured = FALSE
    /\ IF Trim(apiKeyInput) # ""
       THEN apiKey' = Trim(apiKeyInput) /\ isConfigured' = TRUE
       ELSE UNCHANGED <<apiKey, isConfigured>>
    /\ UNCHANGED <<files, status, progressMessage, errorMessage, downloadLink, etr,
                   totalChunksRef, completedChunksRef, startTimeRef>>
    /\ UNCHANGED <<progress, failedFiles, allSummaries, localFailedFiles, fileIdx, fileVars>>
    /\ UNCHANGED <<runVars, chunkVars, lateVars>>

SelectFiles(selectedFiles) ==
    /\ isConfigured = TRUE
    /\ handleFileChange(selectedFiles)

resetStateSequential ==
    /\ isConfigured = TRUE
    /\ status \in {"success", "error"}
    /\ files' = <<>>
    /\ status' = "idle"
    /\ progressMessage' = ""
    /\ errorMessage' = ""
    /\ downloadLink' = Null
    /\ progress' = 0
    /\ failedFiles' = <<>>
    /\ UNCHANGED <<apiKey, etr, totalChunksRef, completedChunksRef, startTimeRef>>
    /\ UNCHANGED <<isConfigured, allSummaries, localFailedFiles, fileIdx, fileVars>>
    /\ UNCHANGED <<runVars, chunkVars, lateVars>>

\* The catch of processFiles: an Error naming the key clears the stored key and
\* shows the configuration screen, and returns; any other sets the error status.
CatchSetsNoStatus(tried) == tried = "throws_api_key"

\* processFiles up to its first await: the checks, the start of the run, the
\* construction of the client and the first iteration of the loop.
processFilesSequential(tried) ==
    /\ pc \in {"idle", "done"}
    /\ IF Len(files) = 0
       THEN /\ errorMessage' = MsgNoFiles
            /\ UNCHANGED <<apiKey, status, progressMessage, downloadLink, pc, sheet>>
            /\ UNCHANGED summaryVars
       ELSE IF apiKey = ""
       THEN /\ isConfigured' = FALSE
            /\ UNCHANGED <<apiKey, status, progressMessage, errorMessage, downloadLink, pc, sheet>>
            /\ UNCHANGED <<progress, failedFiles, allSummaries, localFailedFiles, fileIdx,
                           fileVars>>
       ELSE /\ downloadLink' = Null
            /\ failedFiles' = <<>>
            /\ allSummaries' = <<>>
            /\ localFailedFiles' = <<>>
            /\ fileIdx' = 0
            /\ sheet' = <<>>
            /\ pageIdx' = 0
            /\ totalPassengers' = 0
            /\ voyageInfo' = Null
            /\ pending' = IF tried = "returns" THEN FirstOps(Len(files)) ELSE {}
            /\ IF tried = "returns"
               THEN /\ status' = "processing"
                    /\ errorMessage' = ""
                    /\ progressMessage' = MsgProcessing(1, Len(files))
                    /\ progress' = Percent(1, Len(files))
                    /\ pc' = "summarizing"
                    /\ UNCHANGED <<apiKey, isConfigured>>
               ELSE IF CatchSetsNoStatus(tried)
               THEN /\ status' = "processing"
                    /\ errorMessage' = ""
                    /\ apiKey' = ""
                    /\ isConfigured' = FALSE
                    /\ progress' = 0
                    /\ pc' = "done"
                    /\ UNCHANGED progressMessage
               ELSE /\ status' = "error"
                    /\ errorMessage' = MsgThrown
                    /\ progress' = 0
                    /\ pc' = "done"
                    /\ UNCHANGED <<apiKey, isConfigured, progressMessage>>
    /\ UNCHANGED <<files, etr, totalChunksRef, completedChunksRef, startTimeRef>>
    /\ UNCHANGED <<extraction, chunks, allExtractedRows, stdChunks, standardizedData, finalData>>
    /\ UNCHANGED <<chunkVars, lateVars>>

ClickProcessSequential ==
    /\ isConfigured = TRUE
    /\ status = "idle"
    /\ Len(files) # 0
    /\ \E tried \in TryOutcomes : processFilesSequential(tried)

\* await extractSummaryFromPdf(file, ai) of file i has resolved: the summary is
\* kept or the file is noted as failed, and the loop goes on with the next
\* file or the run ends.
FileDone(op, summary) ==
    LET i == fileIdx + 1
        sums == IF summary.null THEN allSummaries ELSE Append(allSummaries, summary)
        failed == IF summary.null THEN Append(localFailedFiles, i) ELSE localFailedFiles
        valid == ValidSummaries(sums)
    IN  /\ allSummaries' = sums
        /\ localFailedFiles' = failed
        /\ fileIdx' = i
        /\ pageIdx' = 0
        /\ totalPassengers' = 0
        /\ voyageInfo' = Null
        /\ IF i < Len(files)
           THEN /\ pending' = (pending \ {op}) \cup {Op(i + 1, 0, "load")}
                /\ progressMessage' = MsgProcessing(i + 1, Len(files))
                /\ progress' = Percent(i + 1, Len(files))
                /\ UNCHANGED <<failedFiles, errorMessage, status, pc, sheet, downloadLink>>
           ELSE /\ pending' = pending \ {op}
                /\ failedFiles' = failed
                /\ pc' = "done"
                /\ UNCHANGED progress
                /\ IF Len(valid) = 0
                   THEN /\ errorMessage' = IF Len(failed) > 0 THEN MsgNoneProcessed(Len(failed))
                                           ELSE MsgNoSummaries
                        /\ status' = "error"
                        /\ UNCHANGED <<progressMessage, sheet, downloadLink>>
                   ELSE /\ sheet' = SummarySheet(valid)
                        /\ downloadLink' = BlobUrl
                        /\ progressMessage' = MsgComplete(Len(valid), Len(failed))
                        /\ status' = "success"
                        /\ UNCHANGED errorMessage

\* extractSummaryFromPdf goes on to its next await within the file.
NextInFile(op, next, pagesDone, total, info) ==
    /\ pending' = (pending \ {op}) \cup {next}
    /\ pageIdx' = pagesDone
    /\ totalPassengers' = total
    /\ voyageInfo' = info
    /\ UNCHANGED <<allSummaries, localFailedFiles, fileIdx, progressMessage, progress,
                   failedFiles, errorMessage, status, pc, sheet, downloadLink>>

\* An awaited operation of extractSummaryFromPdf settles. A throw is caught
\* and the file gives null; a file without pages gives null; after the call
\* of the last page the file gives its summary.
OpSettles(op, out) ==
    /\ pc = "summarizing"
    /\ op \in pending
    /\ out \in OutcomesOf(op)
    /\ IF ~out.ok
       THEN FileDone(op, NoSummary)
       ELSE IF op.kind = "load"
       THEN IF files[op.file] = 0
            THEN FileDone(op, NoSummary)
            ELSE NextInFile(op, Op(op.file, 1, "render"), 0, 0, Null)
       ELSE IF op.kind = "render"
       THEN NextInFile(op, Op(op.file, op.page, "call"), pageIdx, totalPassengers, voyageInfo)
       ELSE LET total == totalPassengers + out.count
                info == IF op.page = 1 THEN out.voyage ELSE voyageInfo
            IN  IF op.page < files[op.file]
                THEN NextInFile(op, Op(op.file, op.page + 1, "render"), op.page, total, info)
                ELSE FileDone(op, Summary(info, total))
    /\ UNCHANGED <<files, apiKey, etr, totalChunksRef, completedChunksRef, startTimeRef>>
    /\ UNCHANGED isConfigured
    /\ UNCHANGED <<extraction, chunks, allExtractedRows, stdChunks, standardizedData, finalData>>
    /\ UNCHANGED <<chunkVars, lateVars>>

NextSummary ==
    \/ \E apiKeyInput \in KeyInputs : handleApiKeySubmit(apiKeyInput)
    \/ \E selectedFiles \in SummaryBatches : SelectFiles(selectedFiles)
    \/ resetStateSequential
    \/ ClickProcessSequential
    \/ \E op \in pending : \E out \in OutcomesOf(op) : OpSettles(op, out)

SpecSummary == InitSummary /\ [][NextSummary]_vars

\* C15: a run that has entered 'processing' has reached 'success' or 'error'
\* when processFiles has returned; on no path, the one of a refused key
\* included, does the run end with the status still 'processing'.
RunNeverEndsProcessing ==
    pc = "done" => status # "processing"

\* C28: when a run of the sequential variant has ended in success, the rows of
\* the spreadsheet and the failed files together are as many as the selected
\* files, and the counts of the final message add up to that number.
EveryFileAccountedFor ==
    status = "success" =>
        /\ Len(sheet) + Len(failedFiles) = Len(files)
        /\ \E ok \in 0..Len(files) :
              progressMessage = MsgComplete(ok, Len(files) - ok)


\* C27: in the sequential variant at most one operation is awaited at any
\* time; it belongs to the file after the files that have settled, in
\* selection order, and to the page after the pages of that file that have
\* settled; while the run is summarizing exactly one is awaited, and none
\* otherwise.
OneOperationAtATime ==
    /\ Cardinality(pending) <= 1
    /\ fileIdx = Len(allSummaries) + Len(localFailedFiles)
    /\ \A op \in pending :
          /\ pc = "summarizing"
          /\ op.file = fileIdx + 1
          /\ op.file <= Len(files)
          /\ op.kind # "load" => op.page = pageIdx + 1 /\ op.page <= files[op.file]
    /\ pc = "summarizing" => pending # {}

OneOperationAtATimeWitness ==
    /\ pc = "summarizing"
    /\ Len(files) = 3
    /\ files[2] = 2
    /\ fileIdx = 1
    /\ pageIdx = 1
    /\ totalPassengers = 3
    /\ pending = {Op(2, 2, "call")}


----------------------------------------------------------------------------
(* The file list of the drag-and-drop variant (src/unnamed/part_002): files *)
(* are added to the list instead of replacing it. A file is its name and    *)
(* its size.                                                                *)

MaxBatch == 2

FileNames == {"a.pdf", "b.pdf"}

FileSizes == {1, 2}

File(name, size) == [name |-> name, size |-> size]

\* `${f.name}-${f.size}`
FileKey(f) == f.name \o "-" \o ToString(f.size)

\* A FileList: the batch of one pick or one drop. A drop can hold files of
\* different folders, so two of its files can have the same name and size;
\* the files of one pick come from one folder and have different names.
DroppedLists ==
    UNION {[1..n -> {File(name, size) : name \in FileNames, size \in FileSizes}] :
              n \in 0..MaxBatch}

PickedLists ==
    {fl \in DroppedLists :
        \A i \in 1..Len(fl) : \A j \in 1..Len(fl) : i # j => fl[i].name # fl[j].name}

\* newFiles.filter(f => !existingFileKeys.has(key of f))
UniqueNewFiles(prevFiles, newFiles) ==
    LET existingFileKeys == {FileKey(prevFiles[k]) : k \in 1..Len(prevFiles)}
        IsNew(f) == FileKey(f) \notin existingFileKeys
    IN  SelectSeq(newFiles, IsNew)

addFilesToList(fileList) ==
    /\ status = "idle"
    /\ IF Len(fileList) > 0
       THEN /\ files' = files \o UniqueNewFiles(files, fileList)
            /\ status' = "idle"
            /\ downloadLink' = Null
            /\ errorMessage' = ""
       ELSE UNCHANGED <<files, status, downloadLink, errorMessage>>
    /\ UNCHANGED <<apiKey, progressMessage, etr, totalChunksRef, completedChunksRef,
                   startTimeRef>>
    /\ UNCHANGED <<runVars, chunkVars, summaryVars, lateVars>>

\* The change event of the file input
handleFileChangeAdd(fileList) == addFilesToList(fileList)

handleDrop(fileList) == addFilesToList(fileList)

InitSelect ==
    /\ FreshApp /\ NoRun /\ NoChunkHarness /\ NoSummaryRun /\ NoLateChunks
    /\ pc = "idle"

NextSelect ==
    \/ \E fileList \in PickedLists : handleFileChangeAdd(fileList)
    \/ \E fileList \in DroppedLists : handleDrop(fileList)

SpecSelect == InitSelect /\ [][NextSelect]_vars

\* C29: after any sequence of additions to the empty list, no two entries of
\* the list have the same name and size.
NoDuplicateEntries ==
    \A i \in 1..Len(files) : \A j \in 1..Len(files) :
        i # j => ~(files[i].name = files[j].name /\ files[i].size = files[j].size)

====
